---- MODULE Spec2Model ----
(***************************************************************************)
(* The weather service's read-through TTL cache (src/main.go): the shared  *)
(* map `cache` guarded by the sync.RWMutex `mu`, the /weather handler      *)
(* getWeather (lookup, freshness test, provider call, store), the /cache   *)
(* handler getCache (copy-out of the map) and the background loop          *)
(* startCacheEviction.                                                     *)
(*                                                                         *)
(* Time is counted in minutes.  Texts are sequences of one-character       *)
(* strings.  A float64 is the record of the fields of its bit pattern, and *)
(* strconv.ParseFloat and the verb %f of fmt are computed exactly, on      *)
(* natural numbers of any size.                                            *)
(***************************************************************************)
EXTENDS Integers, Sequences, FiniteSets, TLC

\* ---------------------------------------------------------------- constants
cacheDuration == 30
evictionInterval == 1

\* The clock advances at most MaxTicks times; provider observations are
\* numbered 1..MaxRev.
MaxTicks == 2
MaxRev == 1

\* Request-handling goroutines (net/http runs one per connection).
Workers == {"w1", "w2"}

None == [none |-> TRUE]

\* ------------------------------------------------------------------- texts
\* A text is a sequence of one-character strings.
Digits == {"0", "1", "2", "3", "4", "5", "6", "7", "8", "9"}

DigitVal(c) ==
    CASE c = "0" -> 0 [] c = "1" -> 1 [] c = "2" -> 2 [] c = "3" -> 3
      [] c = "4" -> 4 [] c = "5" -> 5 [] c = "6" -> 6 [] c = "7" -> 7
      [] c = "8" -> 8 [] c = "9" -> 9

UpperCase ==
    <<"A", "B", "C", "D", "E", "F", "G", "H", "I", "J", "K", "L", "M",
      "N", "O", "P", "Q", "R", "S", "T", "U", "V", "W", "X", "Y", "Z">>

LowerCase ==
    <<"a", "b", "c", "d", "e", "f", "g", "h", "i", "j", "k", "l", "m",
      "n", "o", "p", "q", "r", "s", "t", "u", "v", "w", "x", "y", "z">>

\* lower(c) of strconv, on the characters it is compared with letters for:
\* an upper-case letter becomes its lower-case letter.
lower(c) ==
    IF \E i \in 1..26 : UpperCase[i] = c
    THEN LowerCase[CHOOSE i \in 1..26 : UpperCase[i] = c]
    ELSE c

HexLetters == {"a", "b", "c", "d", "e", "f"}

\* The value of a decimal digit or of a hexadecimal letter.
HexVal(c) ==
    IF c \in Digits THEN DigitVal(c)
    ELSE CASE lower(c) = "a" -> 10 [] lower(c) = "b" -> 11
           [] lower(c) = "c" -> 12 [] lower(c) = "d" -> 13
           [] lower(c) = "e" -> 14 [] lower(c) = "f" -> 15

Min(a, b) == IF a <= b THEN a ELSE b

Max(a, b) == IF a >= b THEN a ELSE b

\* commonPrefixLenIgnoreCase(s, prefix) of strconv/atof.go; prefix is in
\* lower case.
commonPrefixLenIgnoreCase(s, prefix) ==
    LET n == Min(Len(prefix), Len(s))
        same(i) == lower(s[i]) = prefix[i]
    IN  IF \A i \in 1..n : same(i)
        THEN n
        ELSE (CHOOSE i \in 1..n : ~same(i) /\ \A j \in 1..(i - 1) : same(j)) - 1

\* special(s) of strconv/atof.go: whether s begins with an infinity or a
\* NaN, which one, and how many characters of s it takes.
NotSpecial == [ok |-> FALSE, kind |-> "none", neg |-> FALSE, n |-> 0]

\* Anything longer than "inf" is ok, but only "inf" is consumed unless all
\* of "infinity" is there.
InfinityLen(len) == IF 3 < len /\ len < 8 THEN 3 ELSE len

\* The cases '+', '-', 'i', 'I': n characters of "infinity", after nsign
\* sign characters.
specialInf(n, nsign, neg) ==
    IF n \in {3, 8}
    THEN [ok |-> TRUE, kind |-> "inf", neg |-> neg, n |-> nsign + n]
    ELSE NotSpecial

special(s) ==
    IF s = <<>> THEN NotSpecial
    ELSE IF s[1] \in {"+", "-"}
    THEN specialInf(InfinityLen(commonPrefixLenIgnoreCase(
                        Tail(s), <<"i", "n", "f", "i", "n", "i", "t", "y">>)),
                    1, s[1] = "-")
    ELSE IF lower(s[1]) = "i"
    THEN specialInf(InfinityLen(commonPrefixLenIgnoreCase(
                        s, <<"i", "n", "f", "i", "n", "i", "t", "y">>)),
                    0, FALSE)
    ELSE IF lower(s[1]) = "n" /\ commonPrefixLenIgnoreCase(s, <<"n", "a", "n">>) = 3
    THEN [ok |-> TRUE, kind |-> "nan", neg |-> FALSE, n |-> 3]
    ELSE NotSpecial

\* underscoreOK(s) of strconv/atoi.go: every "_" of s stands between two
\* digits, or between a base prefix and a digit.
underscoreOK(s) ==
    LET body   == IF Len(s) >= 1 /\ s[1] \in {"+", "-"} THEN Tail(s) ELSE s
        prefix == Len(body) >= 2 /\ body[1] = "0" /\ lower(body[2]) \in {"b", "o", "x"}
        hex    == prefix /\ lower(body[2]) = "x"
        first  == IF prefix THEN 3 ELSE 1
        digit(i) == body[i] \in Digits \/ (hex /\ lower(body[i]) \in HexLetters)
    IN  \A i \in first..Len(body) :
            body[i] = "_"
            => /\ IF i = first THEN prefix ELSE digit(i - 1)
               /\ i < Len(body) /\ digit(i + 1)

\* The exponent digits read as readFloat reads them: once the value has
\* reached 10000 the further digits are skipped.
RECURSIVE ExpVal(_, _)
ExpVal(ds, e) ==
    IF ds = <<>> THEN e
    ELSE ExpVal(Tail(ds), IF e < 10000 THEN e * 10 + DigitVal(Head(ds)) ELSE e)

\* readFloat(s) of strconv/atof.go: the longest prefix of s that is a
\* decimal or hexadecimal floating-point number.  ok: there is one; n: its
\* length; neg, hex: its sign and base; digs: the values of its mantissa
\* digits; nfrac: how many of them follow the point; e: its exponent.
NoFloat ==
    [ok |-> FALSE, n |-> 0, neg |-> FALSE, hex |-> FALSE,
     digs |-> <<>>, nfrac |-> 0, e |-> 0]

\* The index at which the loop over the mantissa, begun at from, leaves s:
\* the first character that is no digit of the base, "_" or first ".".
MantissaEnd(s, from, hex) ==
    LET digit(c) == c \in Digits \/ (hex /\ lower(c) \in HexLetters)
        leaves(k) ==
            \/ k > Len(s)
            \/ ~(s[k] \in {"_", "."} \/ digit(s[k]))
            \/ s[k] = "." /\ \E j \in from..(k - 1) : s[j] = "."
    IN  CHOOSE k \in from..(Len(s) + 1) :
            leaves(k) /\ \A j \in from..(k - 1) : ~leaves(j)

\* The index at which the loop over the exponent digits, begun at efrom,
\* leaves s.
ExponentEnd(s, efrom) ==
    LET leaves(k) == k > Len(s) \/ s[k] \notin (Digits \cup {"_"})
    IN  CHOOSE k \in efrom..(Len(s) + 1) :
            leaves(k) /\ \A j \in efrom..(k - 1) : ~leaves(j)

\* The values of the digits of the mantissa mant.
MantissaDigits(mant) ==
    LET chars == SelectSeq(mant, LAMBDA c : c \notin {"_", "."})
    IN  [i \in 1..Len(chars) |-> HexVal(chars[i])]

\* The number of mantissa digits of mant after its point.
FractionDigits(mant) ==
    IF \E i \in 1..Len(mant) : mant[i] = "."
    THEN Len(SelectSeq(SubSeq(mant, (CHOOSE i \in 1..Len(mant) : mant[i] = ".") + 1,
                              Len(mant)),
                       LAMBDA c : c # "_"))
    ELSE 0

\* The end of readFloat: the number takes the first n characters of s, its
\* mantissa is mant and its exponent e.
readFloatEnd(s, n, hex, mant, e) ==
    IF (\E i \in 1..n : s[i] = "_") /\ ~underscoreOK(SubSeq(s, 1, n))
    THEN NoFloat
    ELSE [ok |-> TRUE, n |-> n, neg |-> s[1] = "-", hex |-> hex,
          digs |-> MantissaDigits(mant),
          nfrac |-> FractionDigits(mant),
          e |-> e]

\* The exponent whose digits are s[efrom..(eend - 1)], after the sign esign.
readExponent(s, hex, mant, efrom, eend, esign) ==
    IF efrom > Len(s) \/ s[efrom] \notin Digits THEN NoFloat
    ELSE readFloatEnd(s, eend - 1, hex, mant,
             esign * ExpVal(SelectSeq(SubSeq(s, efrom, eend - 1),
                                      LAMBDA c : c # "_"), 0))

\* The mantissa is s[from..(stop - 1)]: it needs a digit; then comes the
\* optional exponent, which a hexadecimal mantissa must have.
readMantissa(s, from, hex, stop) ==
    LET mant  == SubSeq(s, from, stop - 1)
        efrom == IF stop + 1 <= Len(s) /\ s[stop + 1] \in {"+", "-"}
                 THEN stop + 2 ELSE stop + 1
    IN  IF \A i \in from..(stop - 1) : s[i] \in {"_", "."} THEN NoFloat
        ELSE IF stop <= Len(s) /\ lower(s[stop]) = (IF hex THEN "p" ELSE "e")
        THEN readExponent(s, hex, mant, efrom, ExponentEnd(s, efrom),
                          IF efrom = stop + 2 /\ s[stop + 1] = "-"
                          THEN 0 - 1 ELSE 1)
        ELSE IF hex THEN NoFloat
        ELSE readFloatEnd(s, stop - 1, hex, mant, 0)

\* s after nsign sign characters: the base prefix "0x" counts only when a
\* character follows it.
readBase(s, nsign, hex) ==
    readMantissa(s, nsign + (IF hex THEN 2 ELSE 0) + 1, hex,
                 MantissaEnd(s, nsign + (IF hex THEN 2 ELSE 0) + 1, hex))

readSign(s, nsign) ==
    readBase(s, nsign,
             /\ nsign + 2 < Len(s)
             /\ s[nsign + 1] = "0"
             /\ lower(s[nsign + 2]) = "x")

readFloat(s) ==
    IF s = <<>> THEN NoFloat
    ELSE readSign(s, IF s[1] \in {"+", "-"} THEN 1 ELSE 0)

\* ------------------------------------------------------------------ floats
\* A float64 is given by the fields of its IEEE-754 pattern: the sign bit,
\* the 11 exponent bits and the 52 fraction bits, the latter in two halves
\* of 26 bits (fraction = hi * 2^26 + lo).
Base == 67108864

Float64(sign, exp, hi, lo) == [sign |-> sign, exp |-> exp, hi |-> hi, lo |-> lo]

Zero(neg) == Float64(IF neg THEN 1 ELSE 0, 0, 0, 0)

\* math.Inf(sign) and math.NaN()
Inf(neg) == Float64(IF neg THEN 1 ELSE 0, 2047, 0, 0)

NaN == Float64(0, 2047, 33554432, 1)

IsNaN(f) == f.exp = 2047 /\ (f.hi # 0 \/ f.lo # 0)

IsInf(f) == f.exp = 2047 /\ f.hi = 0 /\ f.lo = 0

\* |a| <= |b| for floats that are not NaN.
MagLeq(a, b) ==
    \/ a.exp < b.exp
    \/ a.exp = b.exp /\ a.hi < b.hi
    \/ a.exp = b.exp /\ a.hi = b.hi /\ a.lo <= b.lo

IsZero(f) == f.exp = 0 /\ f.hi = 0 /\ f.lo = 0

\* a <= b as Go compares float64 values.
FloatLeq(a, b) ==
    /\ ~IsNaN(a)
    /\ ~IsNaN(b)
    /\ \/ IsZero(a) /\ IsZero(b)
       \/ a.sign = 1 /\ b.sign = 0
       \/ a.sign = 0 /\ b.sign = 0 /\ MagLeq(a, b)
       \/ a.sign = 1 /\ b.sign = 1 /\ MagLeq(b, a)

\* Natural numbers of any size, for the conversions between texts and
\* floats: sequences of limbs below Base, least significant first.
\* X without its leading zero limbs.
Norm(X) ==
    IF \A i \in 1..Len(X) : X[i] = 0 THEN <<>>
    ELSE SubSeq(X, 1, CHOOSE i \in 1..Len(X) :
                          X[i] # 0 /\ \A j \in (i + 1)..Len(X) : X[j] = 0)

\* The limbs lo..hi of X times k, plus c: the limbs of the product and the
\* carry out of them (k < 32, c < Base).
RECURSIVE MulRange(_, _, _, _, _)
MulRange(X, lo, hi, k, c) ==
    IF lo > hi THEN [limbs |-> <<>>, carry |-> c]
    ELSE IF lo = hi
    THEN LET t == X[lo] * k + c
         IN  [limbs |-> <<t % Base>>, carry |-> t \div Base]
    ELSE LET mid   == (lo + hi) \div 2
             below == MulRange(X, lo, mid, k, c)
             above == MulRange(X, mid + 1, hi, k, below.carry)
         IN  [limbs |-> below.limbs \o above.limbs, carry |-> above.carry]

\* X * k + c
MulAdd(X, k, c) ==
    LET p == MulRange(X, 1, Len(X), k, c)
    IN  p.limbs \o (IF p.carry = 0 THEN <<>> ELSE <<p.carry>>)

\* Limb i of X, zero beyond its length.
Limb(X, i) == IF i >= 1 /\ i <= Len(X) THEN X[i] ELSE 0

\* The limbs lo..hi of X + Y, plus c: the limbs of the sum and the carry out
\* of them.
RECURSIVE AddRange(_, _, _, _, _)
AddRange(X, Y, lo, hi, c) ==
    IF lo > hi THEN [limbs |-> <<>>, carry |-> c]
    ELSE IF lo = hi
    THEN LET t == Limb(X, lo) + Limb(Y, lo) + c
         IN  [limbs |-> <<t % Base>>, carry |-> t \div Base]
    ELSE LET mid   == (lo + hi) \div 2
             below == AddRange(X, Y, lo, mid, c)
             above == AddRange(X, Y, mid + 1, hi, below.carry)
         IN  [limbs |-> below.limbs \o above.limbs, carry |-> above.carry]

\* X + Y
Add(X, Y) ==
    LET p == AddRange(X, Y, 1, Max(Len(X), Len(Y)), 0)
    IN  p.limbs \o (IF p.carry = 0 THEN <<>> ELSE <<p.carry>>)

\* X * k^n
RECURSIVE MulPow(_, _, _)
MulPow(X, k, n) ==
    IF X = <<>> \/ n = 0 THEN X
    ELSE IF n = 1 THEN MulAdd(X, k, 0)
    ELSE MulPow(MulPow(X, k, n \div 2), k, n - n \div 2)

\* The number written with the digit values ds in base b (b <= 16).
RECURSIVE FromDigits(_, _)
FromDigits(ds, b) ==
    IF Len(ds) <= 1 THEN Norm(ds)
    ELSE LET h == Len(ds) \div 2
         IN  Add(MulPow(FromDigits(SubSeq(ds, 1, h), b), b, Len(ds) - h),
                 FromDigits(SubSeq(ds, h + 1, Len(ds)), b))

\* The limbs lo..hi of X, below a remainder r of the limbs above them,
\* divided by d, from the highest limb down: the limbs of the quotient,
\* most significant first, and the remainder (d < 32).
RECURSIVE DivRange(_, _, _, _, _)
DivRange(X, lo, hi, d, r) ==
    IF lo > hi THEN [limbs |-> <<>>, rem |-> r]
    ELSE IF lo = hi
    THEN LET t == r * Base + X[lo]
         IN  [limbs |-> <<t \div d>>, rem |-> t % d]
    ELSE LET mid   == (lo + hi) \div 2
             above == DivRange(X, mid + 1, hi, d, r)
             below == DivRange(X, lo, mid, d, above.rem)
         IN  [limbs |-> above.limbs \o below.limbs, rem |-> below.rem]

Reverse(s) == [i \in 1..Len(s) |-> s[Len(s) + 1 - i]]

\* Quotient and remainder of X by d.
DivRem(X, d) ==
    LET a == DivRange(X, 1, Len(X), d, 0)
    IN  [q |-> Norm(Reverse(a.limbs)), r |-> a.rem]

\* The quotient of X by 10^n, and whether the division left a remainder.
RECURSIVE DivPow10(_, _)
DivPow10(X, n) ==
    IF X = <<>> \/ n = 0 THEN [q |-> X, inexact |-> FALSE]
    ELSE IF n = 1
    THEN LET a == DivRem(X, 10) IN [q |-> a.q, inexact |-> a.r # 0]
    ELSE LET a == DivPow10(X, n \div 2)
             b == DivPow10(a.q, n - n \div 2)
         IN  [q |-> b.q, inexact |-> a.inexact \/ b.inexact]

\* X * 2^s and the integer part of X / 2^s
ShiftLeft(X, s) ==
    LET w == s \div 26
        b == s % 26
    IN  Norm([i \in 1..(Len(X) + w + 1) |->
                 (Limb(X, i - w) % 2^(26 - b)) * 2^b
                 + Limb(X, i - w - 1) \div 2^(26 - b)])

ShiftRight(X, s) ==
    LET w == s \div 26
        b == s % 26
    IN  Norm([i \in 1..Max(Len(X) - w, 0) |->
                 Limb(X, i + w) \div 2^b
                 + (Limb(X, i + w + 1) % 2^b) * 2^(26 - b)])

\* The number of bits of X (X without leading zero limbs).
BitLen(X) ==
    IF X = <<>> THEN 0
    ELSE (Len(X) - 1) * 26
         + (CHOOSE b \in 1..26 : 2^(b - 1) <= X[Len(X)] /\ X[Len(X)] < 2^b)

\* Bit i of X (bit 0 is the lowest), and whether a bit below i is set.
Bit(X, i) == (Limb(X, i \div 26 + 1) \div 2^(i % 26)) % 2

AnyBelow(X, i) ==
    \/ \E j \in 1..Min(i \div 26, Len(X)) : X[j] # 0
    \/ Limb(X, i \div 26 + 1) % 2^(i % 26) # 0

\* (X + x) / 2^s rounded to the nearest integer, halves to the even one,
\* for s >= 1 and a fraction x below 1 that is not zero exactly if inexact.
RoundShift(X, s, inexact) ==
    LET q    == ShiftRight(X, s)
        up   == /\ Bit(X, s - 1) = 1
                /\ (AnyBelow(X, s - 1) \/ inexact \/ Limb(q, 1) % 2 = 1)
    IN  IF up THEN (IF q = <<>> THEN <<1>> ELSE MulAdd(q, 1, 1)) ELSE q

\* The digits ds without the leading ones that equal z.
DropLeading(ds, z) ==
    IF \A i \in 1..Len(ds) : ds[i] = z THEN <<>>
    ELSE SubSeq(ds, CHOOSE i \in 1..Len(ds) :
                        ds[i] # z /\ \A j \in 1..(i - 1) : ds[j] = z,
                Len(ds))

\* The float64 with the 53-bit mantissa m (m = 2^53 when the rounding
\* carried into the next binade) at the binary exponent q; err when it is
\* beyond the largest float64.
PackFloat(neg, q, m) ==
    LET carried == Len(m) = 3 /\ m[3] = 2
        exp     == IF carried THEN q + 1076
                   ELSE IF Len(m) = 3 THEN q + 1075
                   ELSE 0
    IN  IF exp > 2046 THEN [err |-> TRUE, val |-> Inf(neg)]
        ELSE [err |-> FALSE,
              val |-> Float64(IF neg THEN 1 ELSE 0, exp,
                              IF carried THEN 0 ELSE Limb(m, 2),
                              IF carried THEN 0 ELSE Limb(m, 1))]

\* (X + x) * 2^bexp in units of 2^q, rounded to the nearest integer.
Mantissa(X, bexp, inexact, q) ==
    IF q <= bexp THEN ShiftLeft(X, bexp - q)
    ELSE RoundShift(X, q - bexp, inexact)

\* The float64 for (X + x) * 2^bexp, X # 0, whose highest bit is bit top.
RoundAt(neg, X, bexp, inexact, top) ==
    IF top > 1023 THEN [err |-> TRUE, val |-> Inf(neg)]
    ELSE PackFloat(neg, Max(top - 52, 0 - 1074),
                   Mantissa(X, bexp, inexact, Max(top - 52, 0 - 1074)))

RoundNumber(neg, X, bexp, inexact) ==
    IF X = <<>> THEN [err |-> FALSE, val |-> Zero(neg)]
    ELSE RoundAt(neg, X, bexp, inexact, BitLen(X) - 1 + bexp)

\* The float64 nearest to (A + x) * 2^bexp (halves to the even mantissa),
\* for a fraction x below 1 that is not zero exactly if inexact; err when
\* it is beyond the largest float64 by half a unit of its last place or
\* more, as strconv reports ErrRange.
RoundToFloat(neg, A, bexp, inexact) == RoundNumber(neg, Norm(A), bexp, inexact)

\* The float64 for a quotient of DivPow10 in units of 2^(-s).
RoundQuotient(neg, quot, s) == RoundToFloat(neg, quot.q, 0 - s, quot.inexact)

\* The float64 for the decimal number with the digit values d, the first
\* of them not zero, and the exponent x (the value d * 10^x): strconv
\* reports a range error above 10^310 and returns zero below 10^-330
\* without looking at the digits.
DecimalNumber(neg, d, x) ==
    IF d = <<>> THEN [err |-> FALSE, val |-> Zero(neg)]
    ELSE IF Len(d) + x > 310 THEN [err |-> TRUE, val |-> Inf(neg)]
    ELSE IF Len(d) + x < 0 - 330 THEN [err |-> FALSE, val |-> Zero(neg)]
    ELSE IF x >= 0
    THEN RoundToFloat(neg, MulPow(FromDigits(d, 10), 10, x), 0, FALSE)
    ELSE RoundQuotient(neg,
             DivPow10(ShiftLeft(FromDigits(d, 10), 60 - 4 * x), 0 - x),
             60 - 4 * x)

\* The float64 for the decimal number with digit values ds and exponent x
\* (the value ds * 10^x), as strconv's atof64 rounds it.
DecimalToFloat(neg, ds, x) == DecimalNumber(neg, DropLeading(ds, 0), x)

\* The float64 for the hexadecimal mantissa with digit values ds and
\* binary exponent x (the value ds * 2^x), as strconv's atofHex rounds it.
HexToFloat(neg, ds, x) == RoundToFloat(neg, FromDigits(ds, 16), x, FALSE)

\* strconv.ParseFloat(s, 64): the float64 and whether err != nil.  A text
\* that is not wholly a number is a syntax error, with the value 0; a
\* number too large is a range error, with an infinity.
SyntaxError == [err |-> TRUE, val |-> Zero(FALSE)]

\* s begins with the infinity or NaN sp.
atofSpecial(s, sp) ==
    IF sp.n # Len(s) THEN SyntaxError
    ELSE [err |-> FALSE, val |-> IF sp.kind = "nan" THEN NaN ELSE Inf(sp.neg)]

\* rf is what readFloat made of s.
atofNumber(s, rf) ==
    IF ~rf.ok \/ rf.n # Len(s) THEN SyntaxError
    ELSE IF rf.hex THEN HexToFloat(rf.neg, rf.digs, rf.e - 4 * rf.nfrac)
    ELSE DecimalToFloat(rf.neg, rf.digs, rf.e - rf.nfrac)

ParseFloat(s) ==
    IF special(s).ok THEN atofSpecial(s, special(s))
    ELSE atofNumber(s, readFloat(s))

\* lat >= -90 && lat <= 90
isValidLatitude(lat) ==
    FloatLeq(Float64(1, 1029, 27262976, 0), lat)
    /\ FloatLeq(lat, Float64(0, 1029, 27262976, 0))

\* lon >= -180 && lon <= 180
isValidLongitude(lon) ==
    FloatLeq(Float64(1, 1030, 27262976, 0), lon)
    /\ FloatLeq(lon, Float64(0, 1030, 27262976, 0))

\* The last n decimal digits of X, as characters, and the number that the
\* digits before them write.
RECURSIVE LastDigits(_, _)
LastDigits(X, n) ==
    IF X = <<>> \/ n = 0 THEN [q |-> X, chars |-> [i \in 1..n |-> "0"]]
    ELSE IF n = 1
    THEN LET a == DivRem(X, 10)
         IN  [q |-> a.q, chars |-> <<CHOOSE c \in Digits : DigitVal(c) = a.r>>]
    ELSE LET a == LastDigits(X, n \div 2)
             b == LastDigits(a.q, n - n \div 2)
         IN  [q |-> b.q, chars |-> b.chars \o a.chars]

\* The decimal digits of X, as characters (a limb has at most 8 of them).
DigitChars(X) == DropLeading(LastDigits(X, 8 * Len(X)).chars, "0")

\* |f| * 10^6 rounded to the nearest integer (halves to the even one), for
\* the mantissa m of f and its binary exponent q.
Millionths(m, q) ==
    IF q >= 0 THEN ShiftLeft(MulPow(m, 10, 6), q)
    ELSE RoundShift(MulPow(m, 10, 6), 0 - q, FALSE)

\* The digits ds of a number of millionths, written with the point.
PointSix(ds) ==
    LET padded == IF Len(ds) < 7
                  THEN [i \in 1..(7 - Len(ds)) |-> "0"] \o ds
                  ELSE ds
    IN  SubSeq(padded, 1, Len(padded) - 6) \o <<".">>
        \o SubSeq(padded, Len(padded) - 5, Len(padded))

\* The verb %f of fmt for a float64: sign, integer part, ".", and six
\* decimals, the nearest such number to f (halves to the even one).
FormatF(f) ==
    IF IsNaN(f) THEN <<"N", "a", "N">>
    ELSE IF IsInf(f)
    THEN (IF f.sign = 1 THEN <<"-">> ELSE <<"+">>) \o <<"I", "n", "f">>
    ELSE (IF f.sign = 1 THEN <<"-">> ELSE <<>>)
         \o PointSix(DigitChars(
                IF f.exp = 0 THEN Millionths(Norm(<<f.lo, f.hi>>), 0 - 1074)
                ELSE Millionths(<<f.lo, f.hi, 1>>, f.exp - 1075)))

\* --------------------------------------------------------------- requests
\* Position of the first "." in s, or 0.
DotPos(s) ==
    IF \E i \in 1..Len(s) : s[i] = "."
    THEN CHOOSE i \in 1..Len(s) : s[i] = "." /\ \A j \in 1..(i - 1) : s[j] # "."
    ELSE 0

\* s without the zeros that end its fraction.
RECURSIVE TrimZeros(_)
TrimZeros(s) ==
    IF DotPos(s) # 0 /\ s[Len(s)] = "0"
    THEN TrimZeros(SubSeq(s, 1, Len(s) - 1))
    ELSE s

\* The key built from the texts with their trailing zeros dropped.
CacheKeyTrimmed(latStr, lonStr) ==
    TrimZeros(latStr) \o <<":">> \o TrimZeros(lonStr)

\* fmt.Sprintf("%s:%s", latStr, lonStr)
CacheKey(latStr, lonStr) == latStr \o <<":">> \o lonStr

\* The (lat, lon) query texts a client may send: one location written in
\* two ways, and requests that the handler rejects.
Requests ==
    { << <<"4", ".", "0">>,      <<"1", "e", "1">> >>,
      << <<"4", ".", "0", "0">>, <<"1", "e", "1">> >>,
      << <<>>,                   <<"1", "e", "1">> >>,
      << <<"9", "1">>,           <<"1", "e", "1">> >>,
      << <<"9", "0", ".", "0", "0", "1">>, <<"1", "e", "1">> >>,
      << <<"0", "x", "1", "0">>, <<"1", "e", "1">> >>,
      << <<"n", "a", "n">>,      <<"1", "e", "1">> >>,
      << <<"4">>,                <<"0", ":", "1", "e", "1">> >>,
      << <<"4", ":", "0">>,      <<"1", "e", "1">> >> }

\* The requests of the fair system: one location and one rejected request.
LiveRequests ==
    { << <<"4", ".", "0">>, <<"1", "e", "1">> >>,
      << <<>>,              <<"1", "e", "1">> >> }

\* err != nil || !isValidLatitude(lat), and the same for the longitude, for
\* the result parsed of strconv.ParseFloat.
LatRejected(parsed) == parsed.err \/ ~isValidLatitude(parsed.val)

LonRejected(parsed) == parsed.err \/ ~isValidLongitude(parsed.val)

\* The checks of getWeather before the cache is consulted: "" when the
\* request passes, else the message of the 400 response.
Validate(latStr, lonStr) ==
    IF latStr = <<>> \/ lonStr = <<>>
    THEN "Please provide latitude and longitude parameters"
    ELSE IF LatRejected(ParseFloat(latStr))
    THEN "Invalid latitude value"
    ELSE IF LonRejected(ParseFloat(lonStr))
    THEN "Invalid longitude value"
    ELSE ""

\* The outcome of these checks for each request a client may send.
Validated == [r \in Requests \cup LiveRequests |-> Validate(r[1], r[2])]

\* Line 126: the verb %f applied to the float64 parsed from the text s, for
\* each text of a request.
RequestTexts == {r[i] : r \in Requests \cup LiveRequests, i \in 1..2}

UrlCoord == [s \in RequestTexts |-> FormatF(ParseFloat(s).val)]

\* The coordinates the provider reports for the ones in the url: the
\* float64 that its JSON body decodes to.
Reported == [c \in {UrlCoord[s] : s \in RequestTexts} |-> ParseFloat(c).val]

\* ---------------------------------------------------------------- provider
\* A WeatherResponse, reduced to what the service reads from it: the
\* coordinates, the observation number (Dt) and the number of elements of
\* the Weather array.
WeatherResponse(lat, lon, dt, n) ==
    [lat |-> lat, lon |-> lon, dt |-> dt, weather |-> n]

\* `var weatherResponse WeatherResponse`: the zero value, which is also what
\* the body {} decodes to.
ZeroWeather == WeatherResponse(Zero(FALSE), Zero(FALSE), 0, 0)

NoKey == <<>>

\* The handler's local `weatherResponse`: the value, and the key of the
\* request whose provider call it was decoded from (NoKey while nothing has
\* been decoded into it).
Undecoded == [value |-> ZeroWeather, for |-> NoKey]

Decoded(val, k) == [value |-> val, for |-> k]

\* What http.Get(url) can return to the request with key k, whose url
\* carries the coordinates (lat, lon): a transport error, a 401 whose body
\* is the provider's JSON error object, a 200 whose body is not JSON, a 200
\* whose body is the empty object {}, or a 200 with an observation.
\* `value` is what a decoder gets out of the body; only a 200 with a JSON
\* body is a completed fetch for k.
ProviderReplies(lat, lon, k) ==
    {[err |-> TRUE,  status |-> 0,   json |-> FALSE, value |-> Undecoded],
     [err |-> FALSE, status |-> 401, json |-> TRUE,  value |-> Undecoded],
     [err |-> FALSE, status |-> 200, json |-> FALSE, value |-> Undecoded],
     [err |-> FALSE, status |-> 200, json |-> TRUE,
      value |-> Decoded(ZeroWeather, k)]}
    \cup
    {[err |-> FALSE, status |-> 200, json |-> TRUE,
      value |-> Decoded(WeatherResponse(Reported[lat], Reported[lon], r, 1), k)] :
        r \in 1..MaxRev}

\* The test without the status check.
GetFailedErrOnly(reply) == reply.err

\* `err != nil || resp.StatusCode != http.StatusOK`
GetFailed(reply) == reply.err \/ reply.status # 200

\* json.NewDecoder(resp.Body).Decode(&weatherResponse)
Decode(reply) ==
    IF reply.json THEN [err |-> FALSE, val |-> reply.value]
    ELSE [err |-> TRUE, val |-> Undecoded]

\* The handling without the `return` after the decode error.
FetchOutcomeNoReturn(reply) ==
    IF GetFailed(reply) THEN [fail |-> 500, val |-> Undecoded]
    ELSE [fail |-> 0, val |-> Decode(reply).val]

\* Lines 128-138: what getWeather does with the reply: the status of the
\* error response it sends, or 0 when it goes on to store `val`.
FetchOutcome(reply) ==
    IF GetFailed(reply) THEN [fail |-> 500, val |-> Undecoded]
    ELSE IF Decode(reply).err THEN [fail |-> 500, val |-> Undecoded]
    ELSE [fail |-> 0, val |-> Decode(reply).val]

\* respondWithWeather(w, wr), reached from the cache (via = "cache") or from
\* the provider (via = "provider"): indexing Weather[0] of an empty array
\* panics (net/http recovers and drops the connection); otherwise a 200 is
\* built from the data.  `payload` is the data the handler passed in.
respondWithWeather(wr, via) ==
    [status |-> IF wr.value.weather = 0 THEN "panic" ELSE "200",
     payload |-> wr, via |-> via]

\* http.Error(w, message, code)
httpError(code) == [status |-> code, payload |-> None, via |-> "none"]

NoResponse == [status |-> "-", payload |-> None, via |-> "none"]

\* ------------------------------------------------------------------- store
EmptyMap == [k \in {} |-> None]

CacheEntry(data, timestamp) == [data |-> data, timestamp |-> timestamp]

\* entry, exists := cache[key]
Lookup(c, k) ==
    IF k \in DOMAIN c THEN [exists |-> TRUE, entry |-> c[k]]
    ELSE [exists |-> FALSE, entry |-> None]

NotRead == [exists |-> FALSE, entry |-> None]

\* An assignment that leaves an existing entry as it is.
PutIfAbsent(c, k, e) ==
    [x \in (DOMAIN c) \cup {k} |-> IF x \in DOMAIN c THEN c[x] ELSE e]

\* An assignment that makes the map anew with the one entry.
PutAlone(c, k, e) == [x \in {k} |-> e]

\* cache[key] = entry
Put(c, k, e) == [x \in (DOMAIN c) \cup {k} |-> IF x = k THEN e ELSE c[x]]

\* delete(cache, key)
Delete(c, k) == [x \in (DOMAIN c) \ {k} |-> c[x]]

\* time.Since(t) at clock reading t0
Since(t0, t) == t0 - t

\* The test with the comparison turned round.
IsFreshInverted(f, t0) ==
    f.exists /\ Since(t0, f.entry.timestamp) > cacheDuration

\* The test with <= for <.
IsFreshInclusive(f, t0) ==
    f.exists /\ Since(t0, f.entry.timestamp) <= cacheDuration

\* The test without the age.
IsFreshNoAge(f, t0) == f.exists

\* `exists && time.Since(entry.timestamp) < cacheDuration`
IsFresh(f, t0) ==
    f.exists /\ Since(t0, f.entry.timestamp) < cacheDuration

\* The test with >= for >.
IsExpiredInclusive(e, t0) == Since(t0, e.timestamp) >= cacheDuration

\* The test against the sweep interval instead of the cache duration.
IsExpiredByInterval(e, t0) == Since(t0, e.timestamp) > evictionInterval

\* `time.Since(entry.timestamp) > cacheDuration`
IsExpired(e, t0) == Since(t0, e.timestamp) > cacheDuration

\* sync.RWMutex.  `writer` is the goroutine between a Lock that returned
\* and its Unlock; `pending` the goroutine whose Lock owns the writers'
\* mutex rw.w and has announced itself to the readers but still waits for
\* the active readers to leave; `waiting` the goroutines whose Lock is
\* blocked on rw.w; `readers` the goroutines between an RLock that returned
\* and its RUnlock; `blocked` the goroutines whose RLock found a writer
\* announced and sleeps until that writer's Unlock.
Unlocked ==
    [writer |-> "nobody", pending |-> "nobody", waiting |-> {},
     readers |-> {}, blocked |-> {}]

\* A Lock that takes rw.w whoever has it.
WriterFreeAlways(m) == TRUE

\* rw.w is free: no Lock has it, so none is announced to the readers.
WriterFree(m) == m.writer = "nobody" /\ m.pending = "nobody"

\* Goroutine x calls mu.Lock(): it takes rw.w and announces itself, or
\* blocks on rw.w.
LockCalled(m, x) ==
    IF WriterFree(m)
    THEN [m EXCEPT !.pending = x]
    ELSE [m EXCEPT !.waiting = @ \cup {x}]

\* rw.w is handed to the blocked Lock of x, which announces itself.
LockHandedOver(m, x) == [m EXCEPT !.pending = x, !.waiting = @ \ {x}]

\* The announced Lock returns when the active readers have left.
CanLock(m) == m.readers = {}

LockGranted(m, x) == [m EXCEPT !.writer = x, !.pending = "nobody"]

\* mu.Unlock(): the readers that blocked meanwhile are admitted, then rw.w
\* is released.
LockReleased(m) ==
    [m EXCEPT !.writer = "nobody", !.readers = m.blocked, !.blocked = {}]

\* An RLock that waits for nothing.
CanRLockAlways(m) == TRUE

\* RLock returns at once unless a Lock is announced or inside.
CanRLock(m) == WriterFree(m)

RLockGranted(m, x) == [m EXCEPT !.readers = @ \cup {x}]

\* Goroutine x calls mu.RLock(): it is admitted, or blocks until the
\* announced writer's Unlock.
RLockCalled(m, x) ==
    IF CanRLock(m) THEN RLockGranted(m, x) ELSE [m EXCEPT !.blocked = @ \cup {x}]

\* An RUnlock that is left out.
RUnlockedMissing(m, x) == m

RUnlocked(m, x) == [m EXCEPT !.readers = @ \ {x}]

\* ------------------------------------------------------------------- state
VARIABLES
    cache,      \* the map: key -> CacheEntry
    mu,         \* the RWMutex: who holds it and who is blocked in it
    now,        \* the clock, in minutes
    ticks,      \* how many times the clock has advanced
    pc,         \* per worker: the call its handler makes next
    req,        \* per worker: the (latStr, lonStr) of its request
    key,        \* per worker: the local `key`
    found,      \* per worker: the locals `entry, exists`
    readAt,     \* per worker: the clock reading when the map was read
    resp,       \* per worker: the local `weatherResponse`
    snap,       \* per worker: the local `response` of getCache
    out,        \* per worker: what was written to the client
    swPc,       \* the eviction goroutine: sleeping, waiting, sweeping
    slept,      \* whether evictionInterval has passed since the sleep began
    swStart,    \* the map as it was when the pass took the lock
    swSeen      \* keys this pass has examined -> clock reading at the test

vars == <<cache, mu, now, ticks, pc, req, key, found, readAt, resp, snap, out,
          swPc, slept, swStart, swSeen>>

workerVars == <<pc, req, key, found, readAt, resp, snap, out>>

sweeperVars == <<swPc, slept, swStart, swSeen>>

NoRequest == << <<>>, <<>> >>

Init ==
    /\ cache = EmptyMap
    /\ mu = Unlocked
    /\ now = 0
    /\ ticks = 0
    /\ pc = [p \in Workers |-> "idle"]
    /\ req = [p \in Workers |-> NoRequest]
    /\ key = [p \in Workers |-> NoKey]
    /\ found = [p \in Workers |-> NotRead]
    /\ readAt = [p \in Workers |-> 0]
    /\ resp = [p \in Workers |-> Undecoded]
    /\ snap = [p \in Workers |-> EmptyMap]
    /\ out = [p \in Workers |-> NoResponse]
    /\ swPc = "sleeping"
    /\ slept = FALSE
    /\ swStart = EmptyMap
    /\ swSeen = EmptyMap

\* ------------------------------------------------------------ the clock
\* Time passes.  The clock is read at multiples of the cache duration, so
\* that ages below, equal to and above cacheDuration all occur; every step
\* is at least one evictionInterval long.
TickSteps == {cacheDuration}

Tick(d) ==
    /\ ticks < MaxTicks
    /\ d >= evictionInterval
    /\ now' = now + d
    /\ ticks' = ticks + 1
    /\ slept' = (swPc = "sleeping")
    /\ UNCHANGED <<cache, mu, workerVars, swPc, swStart, swSeen>>

\* ------------------------------------------------------------ getWeather
\* Lines 92-115: read the query, validate, derive the key, call mu.RLock().
BeginWeather(p, r) ==
    /\ pc[p] = "idle"
    /\ IF Validated[r] # ""
       THEN /\ out' = [out EXCEPT ![p] = httpError("400")]
            /\ pc' = [pc EXCEPT ![p] = "done"]
            /\ UNCHANGED <<req, key, mu>>
       ELSE /\ req' = [req EXCEPT ![p] = r]
            /\ key' = [key EXCEPT ![p] = CacheKey(r[1], r[2])]
            /\ mu' = RLockCalled(mu, p)
            /\ pc' = [pc EXCEPT ![p] = "rlock"]
            /\ out' = out
    /\ UNCHANGED <<cache, now, ticks, found, readAt, resp, snap,
                   sweeperVars>>

\* Lines 115-116: mu.RLock() has returned; entry, exists := cache[key]
GetRLock(p) ==
    /\ pc[p] = "rlock"
    /\ p \in mu.readers
    /\ found' = [found EXCEPT ![p] = Lookup(cache, key[p])]
    /\ readAt' = [readAt EXCEPT ![p] = now]
    /\ pc' = [pc EXCEPT ![p] = "runlock"]
    /\ UNCHANGED <<cache, mu, now, ticks, req, key, resp, snap, out,
                   sweeperVars>>

\* Line 117: mu.RUnlock()
GetRUnlock(p) ==
    /\ pc[p] = "runlock"
    /\ mu' = RUnlocked(mu, p)
    /\ pc' = [pc EXCEPT ![p] = "test"]
    /\ UNCHANGED <<cache, now, ticks, req, key, found, readAt, resp, snap,
                   out, sweeperVars>>

\* Lines 119-126: the freshness test on the copy read, with the clock as it
\* is now; a hit answers from the copy, a miss builds the url and issues
\* http.Get.
GetTest(p) ==
    /\ pc[p] = "test"
    /\ IF IsFresh(found[p], now)
       THEN /\ out' = [out EXCEPT ![p] = respondWithWeather(found[p].entry.data, "cache")]
            /\ pc' = [pc EXCEPT ![p] = "done"]
       ELSE /\ pc' = [pc EXCEPT ![p] = "fetch"]
            /\ out' = out
    /\ found' = [found EXCEPT ![p] = NotRead]
    /\ readAt' = [readAt EXCEPT ![p] = 0]
    /\ UNCHANGED <<cache, mu, now, ticks, req, key, resp, snap, sweeperVars>>

\* Lines 127-141: http.Get(url) returns r.  A failed call or an undecodable
\* body is answered with a 500; otherwise the decoded value is kept for the
\* store and mu.Lock() is called.
FetchReturn(p, r) ==
    /\ pc[p] = "fetch"
    /\ LET o == FetchOutcome(r)
       IN  IF o.fail # 0
           THEN /\ out' = [out EXCEPT ![p] = httpError("500")]
                /\ pc' = [pc EXCEPT ![p] = "done"]
                /\ resp' = resp
                /\ mu' = mu
           ELSE /\ resp' = [resp EXCEPT ![p] = o.val]
                /\ pc' = [pc EXCEPT ![p] = "lock"]
                /\ out' = out
                /\ mu' = LockCalled(mu, p)
    /\ UNCHANGED <<cache, now, ticks, req, key, found, readAt, snap,
                   sweeperVars>>

\* The store keyed with the two texts the other way round.
StoreKeySwapped(p) == CacheKey(req[p][2], req[p][1])

\* The key and the entry written by lines 142-145.
StoreKey(p) == key[p]

\* The entry stamped with the observation time of the reply.
StoreEntryAtDt(p) == CacheEntry(resp[p], resp[p].value.dt)

StoreEntry(p) == CacheEntry(resp[p], now)

\* Lines 141-145: mu.Lock(); cache[key] = CacheEntry{...}
PutLock(p) ==
    /\ pc[p] = "lock"
    /\ mu.pending = p
    /\ CanLock(mu)
    /\ mu' = LockGranted(mu, p)
    /\ cache' = Put(cache, StoreKey(p), StoreEntry(p))
    /\ pc' = [pc EXCEPT ![p] = "unlock"]
    /\ UNCHANGED <<now, ticks, req, key, found, readAt, resp, snap, out,
                   sweeperVars>>

\* Line 146: mu.Unlock()
PutUnlock(p) ==
    /\ pc[p] = "unlock"
    /\ mu' = LockReleased(mu)
    /\ pc' = [pc EXCEPT ![p] = "respond"]
    /\ UNCHANGED <<cache, now, ticks, req, key, found, readAt, resp, snap,
                   out, sweeperVars>>

\* Line 148: respondWithWeather(w, weatherResponse), with the lock released;
\* it answers 200 or panics at line 153.
PutRespond(p) ==
    /\ pc[p] = "respond"
    /\ out' = [out EXCEPT ![p] = respondWithWeather(resp[p], "provider")]
    /\ resp' = [resp EXCEPT ![p] = Undecoded]
    /\ pc' = [pc EXCEPT ![p] = "done"]
    /\ UNCHANGED <<cache, mu, now, ticks, req, key, found, readAt, snap,
                   sweeperVars>>

\* The handler has returned; the goroutine serves its next request.
Finish(p) ==
    /\ pc[p] = "done"
    /\ pc' = [pc EXCEPT ![p] = "idle"]
    /\ req' = [req EXCEPT ![p] = NoRequest]
    /\ key' = [key EXCEPT ![p] = NoKey]
    /\ found' = [found EXCEPT ![p] = NotRead]
    /\ readAt' = [readAt EXCEPT ![p] = 0]
    /\ resp' = [resp EXCEPT ![p] = Undecoded]
    /\ snap' = [snap EXCEPT ![p] = EmptyMap]
    /\ out' = [out EXCEPT ![p] = NoResponse]
    /\ UNCHANGED <<cache, mu, now, ticks, sweeperVars>>

\* -------------------------------------------------------------- getCache
BeginCache(p) ==
    /\ pc[p] = "idle"
    /\ pc' = [pc EXCEPT ![p] = "snaplock"]
    /\ mu' = LockCalled(mu, p)
    /\ UNCHANGED <<cache, now, ticks, req, key, found, readAt, resp,
                   snap, out, sweeperVars>>

\* Lines 210-213: mu.Lock(); defer mu.Unlock(); response := make(map...)
SnapLock(p) ==
    /\ pc[p] = "snaplock"
    /\ mu.pending = p
    /\ CanLock(mu)
    /\ mu' = LockGranted(mu, p)
    /\ snap' = [snap EXCEPT ![p] = EmptyMap]
    /\ pc' = [pc EXCEPT ![p] = "snapcopy"]
    /\ UNCHANGED <<cache, now, ticks, req, key, found, readAt, resp, out,
                   sweeperVars>>

\* What getCache reports for one entry: its data and its timestamp.
SnapItem(e) == [data |-> e.data, timestamp |-> e.timestamp]

\* Lines 214-219: one iteration of `for key, entry := range cache`.
SnapCopy(p, k) ==
    /\ pc[p] = "snapcopy"
    /\ k \in (DOMAIN cache) \ (DOMAIN snap[p])
    /\ snap' = [snap EXCEPT ![p] = Put(@, k, SnapItem(cache[k]))]
    /\ UNCHANGED <<cache, mu, now, ticks, pc, req, key, found, readAt, resp,
                   out, sweeperVars>>

\* Lines 221-222: the range is exhausted; the copy is encoded to the client
\* while the lock is still held (the unlock is deferred).
SnapEncode(p) ==
    /\ pc[p] = "snapcopy"
    /\ (DOMAIN cache) \ (DOMAIN snap[p]) = {}
    /\ out' = [out EXCEPT ![p] = [status |-> "200", payload |-> snap[p], via |-> "snapshot"]]
    /\ pc' = [pc EXCEPT ![p] = "snapunlock"]
    /\ UNCHANGED <<cache, mu, now, ticks, req, key, found, readAt, resp, snap,
                   sweeperVars>>

\* Line 223: getCache returns and the deferred mu.Unlock() runs; the
\* goroutine serves its next request.
SnapUnlock(p) ==
    /\ pc[p] = "snapunlock"
    /\ mu' = LockReleased(mu)
    /\ snap' = [snap EXCEPT ![p] = EmptyMap]
    /\ out' = [out EXCEPT ![p] = NoResponse]
    /\ pc' = [pc EXCEPT ![p] = "idle"]
    /\ UNCHANGED <<cache, now, ticks, req, key, found, readAt, resp,
                   sweeperVars>>

\* ---------------------------------------------------- startCacheEviction
\* Line 196: time.Sleep(evictionInterval) returns; the loop calls mu.Lock().
SweeperWake ==
    /\ swPc = "sleeping"
    /\ slept
    /\ swPc' = "waiting"
    /\ mu' = LockCalled(mu, "sweeper")
    /\ UNCHANGED <<cache, now, ticks, workerVars, slept, swStart, swSeen>>

\* Line 197: mu.Lock() is granted; the range over the map begins.
SweepLock ==
    /\ swPc = "waiting"
    /\ mu.pending = "sweeper"
    /\ CanLock(mu)
    /\ mu' = LockGranted(mu, "sweeper")
    /\ swPc' = "sweeping"
    /\ swStart' = cache
    /\ swSeen' = EmptyMap
    /\ UNCHANGED <<cache, now, ticks, workerVars, slept>>

\* The loop body without the test.
SweepEntryNoTest(c, k, t0) == Delete(c, k)

\* The body of the range loop for one entry (lines 199-202).
SweepEntry(c, k, t0) == IF IsExpired(c[k], t0) THEN Delete(c, k) ELSE c

\* Lines 198-203: one iteration of `for key, entry := range cache`.
SweepStep(k) ==
    /\ swPc = "sweeping"
    /\ k \in (DOMAIN cache) \ (DOMAIN swSeen)
    /\ cache' = SweepEntry(cache, k, now)
    /\ swSeen' = Put(swSeen, k, now)
    /\ UNCHANGED <<mu, now, ticks, workerVars, swPc, slept, swStart>>

\* Line 204 and back to line 196: mu.Unlock(); time.Sleep(evictionInterval)
SweepUnlock ==
    /\ swPc = "sweeping"
    /\ (DOMAIN cache) \ (DOMAIN swSeen) = {}
    /\ mu' = LockReleased(mu)
    /\ swPc' = "sleeping"
    /\ slept' = FALSE
    /\ swStart' = EmptyMap
    /\ swSeen' = EmptyMap
    /\ UNCHANGED <<cache, now, ticks, workerVars>>

\* ------------------------------------------------------------------ system
\* The goroutines that call mu.Lock().
Lockers == Workers \cup {"sweeper"}

\* Inside sync.RWMutex: rw.w, released by an Unlock, goes to one of the
\* Lock calls blocked on it.
HandOver(x) ==
    /\ x \in mu.waiting
    /\ WriterFree(mu)
    /\ mu' = LockHandedOver(mu, x)
    /\ UNCHANGED <<cache, now, ticks, workerVars, sweeperVars>>

\* The coordinates written into the provider url (lines 100, 106, 126).
UrlLat(p) == UrlCoord[req[p][1]]

UrlLon(p) == UrlCoord[req[p][2]]

Next ==
    \/ \E d \in TickSteps : Tick(d)
    \/ \E p \in Workers, r \in Requests : BeginWeather(p, r)
    \/ \E p \in Workers : GetRLock(p)
    \/ \E p \in Workers : GetRUnlock(p)
    \/ \E p \in Workers : GetTest(p)
    \/ \E p \in Workers :
          \E r \in ProviderReplies(UrlLat(p), UrlLon(p), key[p]) : FetchReturn(p, r)
    \/ \E p \in Workers : PutLock(p)
    \/ \E p \in Workers : PutUnlock(p)
    \/ \E p \in Workers : PutRespond(p)
    \/ \E p \in Workers : Finish(p)
    \/ \E p \in Workers : BeginCache(p)
    \/ \E p \in Workers : SnapLock(p)
    \/ \E p \in Workers, k \in DOMAIN cache : SnapCopy(p, k)
    \/ \E p \in Workers : SnapEncode(p)
    \/ \E p \in Workers : SnapUnlock(p)
    \/ \E x \in Lockers : HandOver(x)
    \/ SweeperWake
    \/ SweepLock
    \/ \E k \in DOMAIN cache : SweepStep(k)
    \/ SweepUnlock

Spec == Init /\ [][Next]_vars

\* ---------------------------------------------------------- fair system
\* The clock keeps running after its last reading the model follows: a
\* sleep that began at that reading ends as well.
SleepPastHorizon ==
    /\ ticks = MaxTicks
    /\ swPc = "sleeping"
    /\ ~slept
    /\ slept' = TRUE
    /\ UNCHANGED <<cache, mu, now, ticks, workerVars, swPc, swStart, swSeen>>

LiveNext ==
    \/ \E d \in TickSteps : Tick(d)
    \/ SleepPastHorizon
    \/ \E p \in Workers, r \in LiveRequests : BeginWeather(p, r)
    \/ \E p \in Workers : GetRLock(p)
    \/ \E p \in Workers : GetRUnlock(p)
    \/ \E p \in Workers : GetTest(p)
    \/ \E p \in Workers :
          \E r \in ProviderReplies(UrlLat(p), UrlLon(p), key[p]) : FetchReturn(p, r)
    \/ \E p \in Workers : PutLock(p)
    \/ \E p \in Workers : PutUnlock(p)
    \/ \E p \in Workers : PutRespond(p)
    \/ \E p \in Workers : Finish(p)
    \/ \E p \in Workers : BeginCache(p)
    \/ \E p \in Workers : SnapLock(p)
    \/ \E p \in Workers, k \in DOMAIN cache : SnapCopy(p, k)
    \/ \E p \in Workers : SnapEncode(p)
    \/ \E p \in Workers : SnapUnlock(p)
    \/ \E x \in Lockers : HandOver(x)
    \/ SweeperWake
    \/ SweepLock
    \/ \E k \in DOMAIN cache : SweepStep(k)
    \/ SweepUnlock

\* Line 222 writes the encoded map to the connection of the client.  The
\* text of an empty map fits the buffer of the connection, so Encode returns
\* at once; the text of a map with entries has no bound (a decoded reply has
\* texts and a Weather list of any length, and the map any number of keys),
\* and what does not fit the buffers is written as the client reads: the
\* server sets no write timeout (line 238), so Encode returns when the
\* client lets it.
EncodeFits(p) == snap[p] = EmptyMap

\* Time passes; the eviction goroutine, a handler inside a critical
\* section and a handler whose Lock or RLock call can return are scheduled;
\* sync.Mutex hands rw.w to a goroutine that keeps waiting for it
\* (starvation mode), so a hand-over to the sweeper that is possible again
\* and again happens.  Nothing makes the client of a snapshot read, so the
\* Encode of getCache is scheduled only when it does not wait for its
\* client.
Fairness ==
    /\ WF_vars(\E d \in TickSteps : Tick(d))
    /\ WF_vars(SleepPastHorizon)
    /\ WF_vars(SweeperWake)
    /\ SF_vars(HandOver("sweeper"))
    /\ WF_vars(SweepLock)
    /\ WF_vars(\E k \in DOMAIN cache : SweepStep(k))
    /\ WF_vars(SweepUnlock)
    /\ \A p \in Workers :
          /\ WF_vars(GetRLock(p))
          /\ WF_vars(GetRUnlock(p))
          /\ WF_vars(PutLock(p))
          /\ WF_vars(PutUnlock(p))
          /\ WF_vars(SnapLock(p))
          /\ WF_vars(\E k \in DOMAIN cache : SnapCopy(p, k))
          /\ WF_vars(EncodeFits(p) /\ SnapEncode(p))
          /\ WF_vars(SnapUnlock(p))

LiveSpec == Init /\ [][LiveNext]_vars /\ Fairness

\* ================================================================ claims
\* C1 as stated: a lookup that reads an entry whose age at the moment of the
\* read is below cacheDuration answers from the cache, without a provider
\* call, with exactly that entry's data.
C1_FreshAtRead ==
    [][\A p \in Workers :
          (/\ pc[p] = "test"
           /\ pc'[p] # "test"
           /\ found[p].exists
           /\ readAt[p] - found[p].entry.timestamp < cacheDuration)
          => (/\ pc'[p] = "done"
              /\ out'[p].via = "cache"
              /\ out'[p].payload = found[p].entry.data)]_vars

\* C1 amended: the lookup copies the store's entry for the key, and when the
\* age of that copy at the moment of the freshness test (line 119, after the
\* read lock is released) is below cacheDuration, the handler answers from the
\* cache, without a provider call, with exactly the copied data.
C1_FreshAtTest ==
    [][\A p \in Workers :
          /\ (pc[p] = "rlock" /\ pc'[p] = "runlock")
             => /\ found'[p].exists = (key[p] \in DOMAIN cache)
                /\ found'[p].exists => found'[p].entry = cache[key[p]]
          /\ (/\ pc[p] = "test"
              /\ pc'[p] # "test"
              /\ found[p].exists
              /\ now - found[p].entry.timestamp < cacheDuration)
             => (/\ pc'[p] = "done"
                 /\ out'[p].via = "cache"
                 /\ out'[p].payload = found[p].entry.data)]_vars

\* A request answered from the cache with the data fetched for its key.
C1_Hit ==
    \E p \in Workers :
        /\ pc[p] = "done"
        /\ out[p].via = "cache"
        /\ out[p].status = "200"
        /\ out[p].payload.for = key[p]

\* C2: a lookup that finds no entry, or an entry whose age at the read is
\* cacheDuration or more, goes on to the provider call and answers nothing
\* yet; from then on the request is never answered from the cache.
C2_Expiry ==
    [][\A p \in Workers :
          /\ (/\ pc[p] = "test"
              /\ pc'[p] # "test"
              /\ \/ ~found[p].exists
                 \/ readAt[p] - found[p].entry.timestamp >= cacheDuration)
             => (pc'[p] = "fetch" /\ out'[p] = out[p])
          /\ pc[p] \in {"fetch", "lock", "unlock", "respond"} => out'[p].via # "cache"]_vars

\* A provider call in flight for a key whose entry is exactly cacheDuration
\* old.
C2_MissAtExactAge ==
    \E p \in Workers :
        /\ pc[p] = "fetch"
        /\ key[p] \in DOMAIN cache
        /\ now - cache[key[p]].timestamp = cacheDuration

\* C3: a request whose provider call fails ends with a 500 and the map as
\* it was; only a request holding a value decoded from a completed fetch
\* for its key reaches the store.
C3_NoNegativeCaching ==
    [][\A p \in Workers :
          /\ (pc[p] = "fetch" /\ pc'[p] = "done")
             => (cache' = cache /\ out'[p].status = "500")
          /\ (pc[p] = "lock" /\ pc'[p] = "unlock") => resp[p].for = key[p]]_vars

\* A failed request has ended while the stale entry of its key is kept.
C3_FailedFetchKeepsEntry ==
    \E p \in Workers :
        /\ pc[p] = "done"
        /\ out[p].status = "500"
        /\ key[p] \in DOMAIN cache
        /\ now - cache[key[p]].timestamp >= cacheDuration

\* C4: a provider call ends either in a 500 without payload or in a value
\* decoded from a completed fetch for the key; what is answered on the
\* provider path is such a value.
C4_FailureNotMasked ==
    /\ [][\A p \in Workers :
             (pc[p] = "fetch" /\ pc'[p] # "fetch")
             => \/ /\ pc'[p] = "done"
                   /\ out'[p] = [status |-> "500", payload |-> None, via |-> "none"]
                \/ /\ pc'[p] = "lock"
                   /\ resp'[p].for = key[p]]_vars
    /\ [](\A p \in Workers :
             (pc[p] = "done" /\ out[p].via = "provider")
             => out[p].payload.for = key[p])

\* A 500 was answered although the map holds a stale, complete entry for
\* the key.
C4_FailureWithStaleEntry ==
    \E p \in Workers :
        /\ pc[p] = "done"
        /\ out[p].status = "500"
        /\ key[p] \in DOMAIN cache
        /\ cache[key[p]].data.value.weather > 0
        /\ now - cache[key[p]].timestamp > cacheDuration

\* C5 as stated: no entry of the map holds a payload without a
\* weather-condition element.
C5_NoPartialPayloadStored ==
    \A k \in DOMAIN cache : cache[k].data.value.weather > 0

\* C6: throughout a sweep pass, the entries examined so far whose age at
\* their examination exceeded cacheDuration are gone, every other entry the
\* pass started with is present and as it was, nothing was added, and when
\* the range is exhausted every entry the pass started with was examined.
C6_SweepExact ==
    swPc = "sweeping" =>
        /\ DOMAIN swSeen \subseteq DOMAIN swStart
        /\ DOMAIN cache \subseteq DOMAIN swStart
        /\ \A k \in DOMAIN swStart :
              IF /\ k \in DOMAIN swSeen
                 /\ swSeen[k] - swStart[k].timestamp > cacheDuration
              THEN k \notin DOMAIN cache
              ELSE k \in DOMAIN cache /\ cache[k] = swStart[k]
        /\ (DOMAIN cache) \ (DOMAIN swSeen) = {}
              => DOMAIN swSeen = DOMAIN swStart

\* A finished pass that removed one entry and kept another whose age was
\* exactly cacheDuration.
C6_PassRemovedAndKept ==
    /\ swPc = "sweeping"
    /\ (DOMAIN cache) \ (DOMAIN swSeen) = {}
    /\ \E k \in DOMAIN swStart : k \notin DOMAIN cache
    /\ \E k \in DOMAIN cache : swSeen[k] - cache[k].timestamp = cacheDuration

\* C7: every entry of the map holds data decoded from a completed provider
\* call made for the entry's own key.
C7_EntriesFromCompletedFetch ==
    \A k \in DOMAIN cache : cache[k].data.for = k

\* Both keys are stored while the sweeper is in a pass and a handler waits
\* to store.
C7_BusyStore ==
    /\ Cardinality(DOMAIN cache) = 2
    /\ swPc = "sweeping"
    /\ \E p \in Workers : pc[p] = "lock"

\* What a snapshot of the map m reports.
SnapshotOf(m) ==
    [k \in DOMAIN m |-> [data |-> m[k].data, timestamp |-> m[k].timestamp]]

SnapPcs == {"snaplock", "snapcopy", "snapunlock"}

\* C9: while getCache copies, no put and no sweep pass is in progress and
\* what it has copied agrees with the map; what it sends is the whole map as
\* it is at that instant; and no step of getCache changes the map.
C9_SnapshotPointInTime ==
    /\ [](\A p \in Workers :
             /\ pc[p] \in {"snapcopy", "snapunlock"}
                => /\ swPc # "sweeping"
                   /\ \A q \in Workers : pc[q] # "unlock"
             /\ pc[p] = "snapcopy"
                => \A k \in DOMAIN snap[p] :
                      k \in DOMAIN cache /\ snap[p][k] = SnapshotOf(cache)[k]
             /\ pc[p] = "snapunlock" => out[p].payload = SnapshotOf(cache))
    /\ [][\A p \in Workers :
             (pc[p] \in SnapPcs /\ (pc'[p] # pc[p] \/ snap'[p] # snap[p]))
             => cache' = cache]_vars

\* A snapshot of two entries has been sent while a handler waits to store.
C9_SnapshotSent ==
    \E p \in Workers :
        /\ pc[p] = "snapunlock"
        /\ Cardinality(DOMAIN out[p].payload) = 2
        /\ \E q \in Workers : pc[q] = "lock"

\* The key of the text pair r, as the claim defines it.
TextKey(r) == r[1] \o <<":">> \o r[2]

\* C10: a request's key is its two texts joined by ":"; the lookup reads the
\* map at that key and the store writes that key and no other; two requests
\* have the same key exactly when their texts are identical; and a request
\* answered from the cache gets data fetched for its own text pair.
C10_KeyDerivation ==
    /\ [](\A p \in Workers : key[p] # NoKey => key[p] = TextKey(req[p]))
    /\ [](\A p, q \in Workers :
             (key[p] # NoKey /\ key[q] # NoKey)
             => (key[p] = key[q] <=> req[p] = req[q]))
    /\ [](\A p \in Workers :
             (pc[p] = "done" /\ out[p].via = "cache")
             => out[p].payload.for = TextKey(req[p]))
    /\ [][\A p \in Workers :
             /\ (pc[p] = "rlock" /\ pc'[p] = "runlock")
                => /\ found'[p].exists = (TextKey(req[p]) \in DOMAIN cache)
                   /\ found'[p].exists
                      => found'[p].entry = cache[TextKey(req[p])]
             /\ (pc[p] = "lock" /\ pc'[p] = "unlock")
                => /\ DOMAIN cache' = (DOMAIN cache) \cup {TextKey(req[p])}
                   /\ cache'[TextKey(req[p])].data = resp[p]
                   /\ \A k \in (DOMAIN cache) \ {TextKey(req[p])} :
                         cache'[k] = cache[k]]_vars

\* One request was answered from the cache while another, with the same
\* coordinates written differently, misses and calls the provider.
C10_SameNumberOtherText ==
    \E p, q \in Workers :
        /\ pc[p] = "done"
        /\ out[p].via = "cache"
        /\ pc[q] = "fetch"
        /\ req[p] # req[q]
        /\ UrlLat(p) = UrlLat(q)
        /\ UrlLon(p) = UrlLon(q)
        /\ key[p] \in DOMAIN cache
        /\ now - cache[key[p]].timestamp < cacheDuration
        /\ key[q] \notin DOMAIN cache

\* The keys of the requests that pass validation, and the clock readings.
ValidKeys ==
    {CacheKey(r[1], r[2]) : r \in {x \in Requests : Validate(x[1], x[2]) = ""}}

Readings == {i * d : i \in 0..MaxTicks, d \in TickSteps}

\* C8 as stated: the eviction goroutine is in a pass again and again and
\* asleep again and again, every pass ends with the lock released, and an
\* entry older than cacheDuration is eventually gone or replaced.
C8_EvictionLive ==
    /\ []<>(swPc = "sweeping")
    /\ []<>(swPc = "sleeping" /\ mu.writer # "sweeper")
    /\ \A k \in ValidKeys, t \in Readings :
          (/\ k \in DOMAIN cache
           /\ cache[k].timestamp = t
           /\ now - t > cacheDuration)
          ~> (k \notin DOMAIN cache \/ cache[k].timestamp # t)

\* An entry older than cacheDuration is in the map, a getCache holds the
\* lock with its copy complete and its Encode to come, and the sweeper
\* waits in Lock.
C8_SweeperBehindSnapshot ==
    /\ swPc = "waiting"
    /\ \E k \in DOMAIN cache : now - cache[k].timestamp > cacheDuration
    /\ \E p \in Workers :
          /\ pc[p] = "snapcopy"
          /\ mu.writer = p
          /\ DOMAIN snap[p] = DOMAIN cache

\* C11: a key leaves the map only in a step of the sweeper's pass and only
\* when the age of the entry it holds at that step, by the entry's own
\* timestamp, exceeds cacheDuration; and while a pass is under way no entry
\* is replaced, so a store that arrives during the pass takes effect after
\* it and is not touched by it.
C11_FreshWriteNotLost ==
    /\ [][\A k \in DOMAIN cache :
             k \notin DOMAIN cache'
             => /\ swPc = "sweeping"
                /\ now - cache[k].timestamp > cacheDuration]_vars
    /\ [][swPc = "sweeping"
             => \A k \in (DOMAIN cache) \cap (DOMAIN cache') :
                   cache'[k] = cache[k]]_vars

\* The pass has deleted a key's stale entry while a handler that fetched
\* that key waits to store it, and another entry of age exactly
\* cacheDuration has been examined and kept.
C11_DeletedWhileStoreWaits ==
    /\ swPc = "sweeping"
    /\ \E p \in Workers :
          /\ pc[p] = "lock"
          /\ key[p] \in DOMAIN swStart
          /\ key[p] \notin DOMAIN cache
    /\ \E k \in DOMAIN cache :
          k \in DOMAIN swSeen /\ swSeen[k] - cache[k].timestamp = cacheDuration

\* Where a goroutine stands when it holds the write lock; where a handler
\* stands from its call of RLock to its RUnlock.
WriterPcs == {"unlock", "snapcopy", "snapunlock"}

ReaderPcs == {"rlock", "runlock"}

\* C12: the mutex has a writer or readers, never both, and at most one
\* goroutine is between Lock and Unlock; a handler between RLock and RUnlock
\* is either admitted as a reader or blocked, and it is blocked only while
\* a writer is inside or has announced itself; the map changes only in a
\* step of the goroutine that holds the write lock; getWeather reads the map
\* only as a reader with no writer inside, and getCache only as the writer.
C12_WriterExclusion ==
    /\ [](/\ mu.writer # "nobody" => mu.readers = {}
          /\ mu.writer # "nobody" => mu.pending = "nobody"
          /\ mu.blocked # {} => ~WriterFree(mu)
          /\ mu.readers \cap mu.blocked = {}
          /\ \A p \in Workers :
                /\ (mu.writer = p) = (pc[p] \in WriterPcs)
                /\ (p \in mu.readers \cup mu.blocked) = (pc[p] \in ReaderPcs)
                /\ pc[p] = "runlock" => p \in mu.readers
          /\ (mu.writer = "sweeper") = (swPc = "sweeping")
          /\ \A p, q \in Workers :
                (pc[p] \in WriterPcs /\ pc[q] \in WriterPcs) => p = q)
    /\ [][cache' # cache
             => /\ mu'.writer # "nobody"
                /\ mu'.readers = {}
                /\ mu.readers = {}
                /\ mu.writer \in {"nobody", mu'.writer}
                /\ \/ mu'.writer = "sweeper" /\ swPc = "sweeping"
                   \/ \E p \in Workers :
                         mu'.writer = p /\ pc[p] = "lock" /\ pc'[p] = "unlock"]_vars
    /\ [][\A p \in Workers :
             /\ (pc[p] = "rlock" /\ pc'[p] = "runlock")
                => (p \in mu.readers /\ p \in mu'.readers
                    /\ mu'.writer = "nobody" /\ mu.writer = "nobody"
                    /\ cache' = cache)
             /\ snap'[p] # snap[p] /\ pc'[p] = "snapcopy"
                => (mu.writer = p /\ mu'.writer = p /\ mu.readers = {})]_vars

\* A put is inside the map while the other handler is blocked in RLock and
\* the sweeper is blocked in Lock.
C12_PutInsideOthersWait ==
    \E p, q \in Workers :
        /\ pc[p] = "unlock"
        /\ pc[q] = "rlock"
        /\ q \in mu.blocked
        /\ swPc = "waiting"
        /\ "sweeper" \in mu.waiting

\* Where a goroutine stands while getCache is inside the map.
SnapInside == {"snapcopy", "snapunlock"}

\* C13: a read does not wait for a snapshot, and a snapshot does not wait
\* for another snapshot: while getCache is inside the map, a lookup that has
\* called RLock can read the map and a second getCache that has called Lock
\* can take it.
C13_ReadersRunTogether ==
    \A p, q \in Workers :
        (p # q /\ pc[q] \in SnapInside)
        => /\ pc[p] = "rlock" => ENABLED GetRLock(p)
           /\ pc[p] = "snaplock" => ENABLED SnapLock(p)

\* C14: a handler whose http.Get is in flight neither holds the mutex, as
\* writer or as reader, nor waits for it; so when every other goroutine is
\* in its provider call or asleep, a lookup, a store, a snapshot and the
\* sweeper's pass each get the lock at once (a Lock call that was blocked
\* is handed rw.w, any other enters).
C14_NoFetchUnderLock ==
    /\ \A p \in Workers :
          pc[p] = "fetch"
          => /\ mu.writer # p /\ mu.pending # p /\ p \notin mu.waiting
             /\ p \notin mu.readers /\ p \notin mu.blocked
    /\ \A p \in Workers :
          ((\A q \in Workers \ {p} : pc[q] = "fetch") /\ swPc = "sleeping")
          => /\ pc[p] = "rlock" => ENABLED GetRLock(p)
             /\ pc[p] = "lock" => ENABLED (HandOver(p) \/ PutLock(p))
             /\ pc[p] = "snaplock" => ENABLED (HandOver(p) \/ SnapLock(p))
    /\ ((\A q \in Workers : pc[q] = "fetch") /\ swPc = "waiting")
          => ENABLED (HandOver("sweeper") \/ SweepLock)

\* One handler's provider call is in flight while the other handler, for
\* another key, is inside its store and the sweeper waits for the lock.
C14_FetchBesideStore ==
    \E p, q \in Workers :
        /\ pc[p] = "fetch"
        /\ pc[q] = "unlock"
        /\ key[p] # key[q]
        /\ swPc = "waiting"

\* C15: a provider call in flight for a key does not hold back another
\* request for the same key: a handler that has read that key can release
\* the read lock, and when its freshness test finds no entry, or one of age
\* cacheDuration or more, it can issue its own provider call while the
\* first is still in flight.
C15_DuplicateFetch ==
    \A p, q \in Workers :
        (p # q /\ pc[q] = "fetch" /\ key[p] = key[q])
        => /\ pc[p] = "runlock" => ENABLED GetRUnlock(p)
           /\ (/\ pc[p] = "test"
               /\ \/ ~found[p].exists
                  \/ now - found[p].entry.timestamp >= cacheDuration)
              => ENABLED (GetTest(p) /\ pc'[p] = "fetch")

\* Two handlers have a provider call in flight for the same key, whose
\* entry in the map has reached cacheDuration.
C15_TwoFetchesOneKey ==
    \E p, q \in Workers :
        /\ p # q
        /\ pc[p] = "fetch"
        /\ pc[q] = "fetch"
        /\ key[p] = key[q]
        /\ key[p] \in DOMAIN cache
        /\ now - cache[key[p]].timestamp >= cacheDuration

\* The step in which handler p assigns cache[key].
PutStep(p) == pc[p] = "lock" /\ pc'[p] = "unlock"

\* C16: a put leaves under its key exactly the data it fetched with the
\* clock reading of the put, whatever was there before; in every step the
\* entry a key holds is the one written by a put of that step or the one the
\* key held before, so between puts an entry stays as the last put wrote it
\* until a sweep removes it; and a snapshot reports for each key that one
\* entry.
C16_ConvergesToLastPut ==
    /\ [][/\ \A p \in Workers :
                PutStep(p)
                => /\ key[p] \in DOMAIN cache'
                   /\ cache'[key[p]] = [data |-> resp[p], timestamp |-> now]
          /\ \A k \in DOMAIN cache' :
                \/ \E p \in Workers : PutStep(p) /\ key[p] = k
                \/ k \in DOMAIN cache /\ cache'[k] = cache[k]]_vars
    /\ [](\A q \in Workers :
             pc[q] = "snapunlock"
             => /\ DOMAIN out[q].payload = DOMAIN cache
                /\ \A k \in DOMAIN cache :
                      /\ out[q].payload[k].data = cache[k].data
                      /\ out[q].payload[k].timestamp = cache[k].timestamp)

\* A handler was answered from the cache with one payload; the key was then
\* stored again with another payload, and the snapshot sent afterwards
\* reports the later one.
C16_SnapshotAfterRefresh ==
    \E p, q \in Workers :
        /\ pc[p] = "done"
        /\ out[p].via = "cache"
        /\ pc[q] = "snapunlock"
        /\ key[p] \in DOMAIN out[q].payload
        /\ out[q].payload[key[p]].data # out[p].payload
        /\ out[q].payload[key[p]].timestamp > 0

\* C17: no entry carries a timestamp later than the clock; a put stamps its
\* entry with the clock reading of the put, taken while it holds the write
\* lock, and when it replaces an entry the new timestamp is not earlier
\* than the one replaced.
C17_StoredAtMonotone ==
    /\ [](\A k \in DOMAIN cache : cache[k].timestamp <= now)
    /\ [][\A p \in Workers :
             PutStep(p)
             => /\ mu'.writer = p
                /\ cache'[key[p]].timestamp = now
                /\ key[p] \in DOMAIN cache
                   => cache'[key[p]].timestamp >= cache[key[p]].timestamp]_vars

\* A put has just stamped its entry with a later clock reading, for a key
\* whose earlier entry, too young for the sweeper, answered the other
\* handler's request.
C17_PutOverAnsweredEntry ==
    \E p, q \in Workers :
        /\ pc[p] = "unlock"
        /\ now > 0
        /\ now <= cacheDuration
        /\ cache[key[p]].timestamp = now
        /\ pc[q] = "done"
        /\ out[q].via = "cache"
        /\ key[q] = key[p]

\* C18: an entry the sweeper deletes is one that a lookup made at that
\* moment would not answer from (the freshness test on it fails), so an
\* entry a lookup would answer from is still there after any step; an
\* entry examined at age exactly cacheDuration is kept by the pass, and a
\* handler that tests its copy at that age calls the provider.
C18_StalenessAgrees ==
    /\ [][\A k \in DOMAIN cache :
             /\ k \notin DOMAIN cache' => ~IsFresh(Lookup(cache, k), now)
             /\ IsFresh(Lookup(cache, k), now) => k \in DOMAIN cache']_vars
    /\ [](\A k \in (DOMAIN swSeen) \cap (DOMAIN swStart) :
             swSeen[k] - swStart[k].timestamp = cacheDuration
             => (k \in DOMAIN cache /\ cache[k] = swStart[k]))
    /\ [][\A p \in Workers :
             (/\ pc[p] = "test"
              /\ pc'[p] # "test"
              /\ found[p].exists
              /\ now - found[p].entry.timestamp = cacheDuration)
             => pc'[p] = "fetch"]_vars

\* The pass has deleted one entry and kept another examined at age exactly
\* cacheDuration, for whose key a handler has a provider call in flight.
C18_KeptAtExactAge ==
    /\ swPc = "sweeping"
    /\ \E k \in DOMAIN swStart : k \notin DOMAIN cache
    /\ \E k \in (DOMAIN cache) \cap (DOMAIN swSeen) :
          /\ swSeen[k] - cache[k].timestamp = cacheDuration
          /\ now = swSeen[k]
          /\ \E p \in Workers : pc[p] = "fetch" /\ key[p] = k

\* Where a handler stands when it is outside every critical section.
OutsidePcs ==
    {"idle", "test", "fetch", "lock", "respond", "snaplock", "done"}

\* The steps in which a goroutine that called Lock gets nearer to the map:
\* it is handed rw.w, or it enters.
AcquireStep ==
    \/ \E x \in Lockers : HandOver(x)
    \/ \E p \in Workers : PutLock(p) \/ SnapLock(p)
    \/ SweepLock

\* Goroutine x has the mutex, as the writer or as a reader.
Holds(x) == mu.writer = x \/ x \in mu.readers

\* C19 as stated: a handler that has released the lock of its store and is
\* about to answer or has answered (from the cache, with a 400 or a 500,
\* from the provider, or by panicking in respondWithWeather), or is idle, at
\* its freshness test, in its provider call or waiting in Lock, holds no
\* lock, and the sleeping or waiting sweeper holds none; a goroutine takes
\* the mutex only when it holds it in no mode; a reader is blocked only
\* while a writer holds or awaits the map, and when nobody is inside and
\* goroutines wait in Lock, one of them can move on; and every goroutine
\* that has taken the mutex, in a lookup, a store, a snapshot or a sweep
\* pass, releases it.
C19_LockHygiene ==
    /\ [](/\ \A p \in Workers : pc[p] \in OutsidePcs => ~Holds(p)
          /\ swPc # "sweeping" => ~Holds("sweeper")
          /\ mu.blocked # {} => (mu.writer # "nobody" \/ mu.pending # "nobody")
          /\ (/\ mu.writer = "nobody"
              /\ mu.readers = {}
              /\ \/ swPc = "waiting"
                 \/ \E p \in Workers : pc[p] \in {"lock", "snaplock"})
             => ENABLED AcquireStep)
    /\ [][\A p \in Workers :
             /\ (mu'.writer = p /\ mu.writer # p) => p \notin mu.readers
             /\ (p \in mu'.readers /\ p \notin mu.readers) => mu.writer # p]_vars
    /\ \A x \in Lockers : Holds(x) ~> ~Holds(x)

\* A getCache holds the lock with its copy of a map with entries complete
\* and its Encode to come, while the other handler's lookup is blocked in
\* RLock and the sweeper is blocked in Lock.
C19_AllBehindSnapshot ==
    \E p, q \in Workers :
        /\ pc[p] = "snapcopy"
        /\ mu.writer = p
        /\ cache # EmptyMap
        /\ DOMAIN snap[p] = DOMAIN cache
        /\ pc[q] = "rlock"
        /\ q \in mu.blocked
        /\ swPc = "waiting"

\* Where a handler stands inside getWeather.
WeatherPcs ==
    {"rlock", "runlock", "test", "fetch", "lock", "unlock", "respond", "done"}

\* C20: of the steps of a getWeather call only the store changes the map,
\* so a call answered from the cache changes nothing, the timestamp of the
\* entry it answered from included; the store of a call that missed writes
\* the call's own key and leaves every other key with the entry it had.
C20_ResolveFrame ==
    [][\A p \in Workers :
          (pc'[p] # pc[p] /\ (pc[p] \in WeatherPcs \/ pc'[p] \in WeatherPcs))
          => IF PutStep(p)
             THEN /\ DOMAIN cache' = (DOMAIN cache) \cup {key[p]}
                  /\ \A k \in (DOMAIN cache) \ {key[p]} : cache'[k] = cache[k]
             ELSE cache' = cache]_vars

\* A handler was answered from the cache and the entry it was answered from
\* keeps its earlier timestamp, while the other handler, which missed on
\* another key, has just stored that key beside it.
C20_HitBesideStore ==
    \E p, q \in Workers :
        /\ pc[p] = "done"
        /\ out[p].via = "cache"
        /\ key[p] \in DOMAIN cache
        /\ cache[key[p]].data = out[p].payload
        /\ cache[key[p]].timestamp < now
        /\ pc[q] = "unlock"
        /\ key[q] # key[p]
        /\ cache[key[q]].timestamp = now

====
